---- MODULE Spec2Model ----
(***************************************************************************)
(* Model of the Alexupport agent: the orchestrator AlexupportAgent.answer  *)
(* (src/agent/alexupport_agent.py), its microagents, the LLM client with   *)
(* its token-usage log, and the Streamlit script that drives the agent     *)
(* (src/streamlit_app.py).                                                  *)
(*                                                                         *)
(* A Python string is a sequence of tokens; a token is a TLA+ string that  *)
(* stands for one character or for one indivisible piece of text.          *)
(***************************************************************************)
EXTENDS Integers, Sequences, FiniteSets, TLC

(***************************************************************************)
(* Bounds of the model                                                     *)
(***************************************************************************)
\* number of answer() calls of one session
MaxCalls == 2
\* number of points one index query returns in the model (the code asks for 10)
\* points in the index that list_products pages through
MaxIndex == 3
\* largest limit list_products is called with
MaxLimit == 2
\* length of the texts the chat model gives to the answerability check
MaxRawLen == 4
\* turns per session in the specification with fairness
MaxFairCalls == 1
\* generate_answer calls modelled per turn (the loop itself allows MaxIterations)
MaxAttempts == 6
MaxMatches == 2

(***************************************************************************)
(* Program constants                                                       *)
(***************************************************************************)
\* alexupport_agent.py:101  while iteration < 5
MaxIterations == 5
\* information_retriever.py:92  point.score >= 0.5, in hundredths
ScoreThreshold == 50
\* information_retriever.py:82  limit=10
QueryLimit == 10
\* information_retriever.py:33  qdrant_client.scroll(limit=256)
ScrollLimit == 256

(***************************************************************************)
(* Strings                                                                 *)
(***************************************************************************)
Indent == "        "
Whitespace == {" ", "\n", Indent}

RECURSIVE LStrip(_)
LStrip(s) ==
    IF s = <<>> THEN <<>>
    ELSE IF Head(s) \in Whitespace THEN LStrip(Tail(s)) ELSE s

RECURSIVE RStrip(_)
RStrip(s) ==
    IF s = <<>> THEN <<>>
    ELSE IF s[Len(s)] \in Whitespace THEN RStrip(SubSeq(s, 1, Len(s) - 1)) ELSE s

\* str.strip()
Strip(s) == RStrip(LStrip(s))

UpperChar(c) ==
    CASE c = "y" -> "Y"
      [] c = "e" -> "E"
      [] c = "s" -> "S"
      [] c = "n" -> "N"
      [] c = "o" -> "O"
      [] c = "m" -> "M"
      [] c = "a" -> "A"
      [] c = "b" -> "B"
      [] OTHER -> c

\* str.upper()
Upper(s) == [i \in 1..Len(s) |-> UpperChar(s[i])]

\* str.startswith(prefix)
StartsWith(s, prefix) ==
    /\ Len(s) >= Len(prefix)
    /\ SubSeq(s, 1, Len(prefix)) = prefix

\* sep.join(parts), parts a sequence of strings, sep one token
RECURSIVE Join(_, _)
Join(parts, sep) ==
    IF parts = <<>> THEN <<>>
    ELSE IF Len(parts) = 1 THEN parts[1]
    ELSE parts[1] \o <<sep>> \o Join(Tail(parts), sep)

\* s.split('\n'): the pieces between the newline tokens, empty pieces kept
RECURSIVE SplitLines(_)
SplitLines(s) ==
    IF \A i \in 1..Len(s) : s[i] # "\n" THEN <<s>>
    ELSE LET k == CHOOSE i \in 1..Len(s) :
                      /\ s[i] = "\n"
                      /\ \A j \in 1..(i - 1) : s[j] # "\n"
         IN  <<SubSeq(s, 1, k - 1)>> \o SplitLines(SubSeq(s, k + 1, Len(s)))

(***************************************************************************)
(* Outcomes of a call: a returned value or a raised exception; val is the  *)
(* value, or str(e) of the exception.                                      *)
(***************************************************************************)
Return(v) == [ok |-> TRUE, val |-> v]
Raise(e) == [ok |-> FALSE, val |-> e]

(***************************************************************************)
(* The external services: what the chat model, the embedding model, the    *)
(* vector index and the log file can answer.                               *)
(***************************************************************************)
TransportError == <<"timeout">>
LogError == <<"disk full">>
IndexError == <<"index down">>

RefinerTexts == {<<"r1">>, <<" ", "r2", "\n">>}
CheckerTexts == {<<"y", "e", "s">>, <<" ", "Y", "e", "s", "\n">>, <<"N", "O">>,
                 <<"m", "a", "y", "b", "e">>}
AnswerTexts == {<<"a1">>, <<"a2", " ">>}
FollowUpTexts == {<<"f1", "\n", " ", "f2">>}
Questions == {<<"q1">>}
Products == {"A1", "A2"}

\* chat_model.invoke: the model answers one of texts, or the transport fails
ModelOutcomes(texts) == {Return(t) : t \in texts} \cup {Raise(TransportError)}
\* embedding_model.embed_query
EmbeddingOutcomes == {Return(<<"vec">>), Raise(TransportError)}

(***************************************************************************)
(* utils.log_token_usage and LLMClient                                     *)
(***************************************************************************)
LogOperations == {"response_generation", "embeddings_generation"}

\* log_token_usage: appends one line to total_tokens.txt; the write raises
\* when the file or its directory cannot be written (writeOk = FALSE).
log_token_usage(operation, writeOk) ==
    IF operation \notin LogOperations
    THEN Raise(<<"Operation must be either 'response_generation' or 'embeddings_generation'.">>)
    ELSE IF ~writeOk THEN Raise(LogError)
    ELSE Return(<<>>)

\* LLMClient.generate_response: invoke the chat model, log the usage, return
\* the content. Neither call is guarded.
generate_response(model, writeOk) ==
    IF ~model.ok THEN model
    ELSE LET logged == log_token_usage("response_generation", writeOk)
         IN  IF ~logged.ok THEN logged ELSE Return(model.val)

\* LLMClient.generate_embeddings
generate_embeddings(model, writeOk) ==
    IF ~model.ok THEN model
    ELSE LET logged == log_token_usage("embeddings_generation", writeOk)
         IN  IF ~logged.ok THEN logged ELSE Return(model.val)

\* What one Text Client call did: did the model answer, did the log write
\* fail, did the call return to its caller.
CallRecord(model, out) ==
    [modelOk |-> model.ok, logFailed |-> model.ok /\ ~out.ok, returned |-> out.ok]
NoCall == [modelOk |-> FALSE, logFailed |-> FALSE, returned |-> FALSE]

(***************************************************************************)
(* The vector index                                                        *)
(***************************************************************************)
\* The points of product a: a payload may lack 'answers' or 'review_snippets';
\* every snippet names the product it is about
PointsOf(a) ==
    { [asin |-> a, score |-> 90,
       payload |-> [answers |-> << <<a, " answer">> >>, review_snippets |-> << <<a, " review">> >>]],
      [asin |-> a, score |-> 50, payload |-> [answers |-> << <<a, " answer 2">> >>]],
      [asin |-> a, score |-> 40, payload |-> [review_snippets |-> << <<a, " review 3">> >>]] }

\* the collection
IndexPoints == UNION {PointsOf(a) : a \in Products}

\* variant: the query carries no filter
QueryFilter_None(product_id) == {}

\* query_filter=Filter(must=[FieldCondition(key="asin", match=MatchValue(value=product_id))])
QueryFilter(product_id) == {[key |-> "asin", value |-> product_id]}

\* the index keeps the points that meet every must-condition
MatchesFilter(point, filter) == \A c \in filter : point[c.key] = c.value

\* qdrant query_points: at most Min(limit, MaxMatches) distinct points that
\* meet the filter, best score first, or a transport failure
QueryResults(filter) ==
    LET n == IF QueryLimit < MaxMatches THEN QueryLimit ELSE MaxMatches
        hits == {p \in IndexPoints : MatchesFilter(p, filter)}
    IN  { s \in UNION {[1..k -> hits] : k \in 0..n} :
            \A i, j \in 1..Len(s) : i < j => s[i].score > s[j].score }

QueryOutcomes(filter) ==
    {Return(s) : s \in QueryResults(filter)} \cup {Raise(IndexError)}

\* payload.get(key, [])
PayloadGet(payload, key) == IF key \in DOMAIN payload THEN payload[key] ELSE <<>>

\* variant: no match is discarded
FilterByScore_KeepAll(points) == points

\* [point for point in points if point.score >= 0.5]
RECURSIVE FilterByScore(_)
FilterByScore(points) ==
    IF points = <<>> THEN <<>>
    ELSE IF Head(points).score >= ScoreThreshold
         THEN <<Head(points)>> \o FilterByScore(Tail(points))
         ELSE FilterByScore(Tail(points))

(***************************************************************************)
(* The microagents, as functions of the outcomes of their external calls   *)
(***************************************************************************)
\* InputRefiner.refine_input
refine_input(llm) == IF llm.ok THEN Return(Strip(llm.val)) ELSE llm

\* InformationRetriever.retrieve_information: any failure is wrapped in a
\* RuntimeError
retrieve_information(emb, query) ==
    IF ~emb.ok THEN Raise(<<"Error retrieving information: ">> \o emb.val)
    ELSE IF ~query.ok THEN Raise(<<"Error retrieving information: ">> \o query.val)
    ELSE LET kept == FilterByScore(query.val)
         IN  Return([i \in 1..Len(kept) |->
                        PayloadGet(kept[i].payload, "answers")
                            \o PayloadGet(kept[i].payload, "review_snippets")])

\* variant: the stock reason is the empty string
NoInformationReason_Empty == <<>>

NoInformationReason == <<"I don't  have relevant information in my data to answer your question.">>
SufficientReason == <<"The retrieved information is sufficient to answer the question.">>

\* variant: the Text Client is asked before the evidence is looked at
check_answerability_NoShortCircuit(retrieved_info, llm) ==
    IF ~llm.ok
    THEN [answerable |-> FALSE,
          reason |-> <<"Error during answerability check: ">> \o llm.val, calls |-> 1]
    ELSE IF retrieved_info = <<>>
    THEN [answerable |-> FALSE, reason |-> NoInformationReason, calls |-> 1]
    ELSE LET response == Upper(Strip(llm.val))
         IN  IF StartsWith(response, <<"Y", "E", "S">>)
             THEN [answerable |-> TRUE, reason |-> SufficientReason, calls |-> 1]
             ELSE IF StartsWith(response, <<"N", "O">>)
             THEN [answerable |-> FALSE, reason |-> NoInformationReason, calls |-> 1]
             ELSE [answerable |-> FALSE,
                   reason |-> <<"Unexpected response from LLM: ">> \o response, calls |-> 1]

\* variant: a failed check gives the stock reason, without the cause
check_answerability_GenericReason(retrieved_info, llm) ==
    IF retrieved_info = <<>>
    THEN [answerable |-> FALSE, reason |-> NoInformationReason, calls |-> 0]
    ELSE IF ~llm.ok
    THEN [answerable |-> FALSE, reason |-> NoInformationReason, calls |-> 1]
    ELSE LET response == Upper(Strip(llm.val))
         IN  IF StartsWith(response, <<"Y", "E", "S">>)
             THEN [answerable |-> TRUE, reason |-> SufficientReason, calls |-> 1]
             ELSE IF StartsWith(response, <<"N", "O">>)
             THEN [answerable |-> FALSE, reason |-> NoInformationReason, calls |-> 1]
             ELSE [answerable |-> FALSE,
                   reason |-> <<"Unexpected response from LLM: ">> \o response, calls |-> 1]

\* variant: no test of the evidence at all, the Text Client decides
check_answerability_AsksOnEmpty(retrieved_info, llm) ==
    IF ~llm.ok
    THEN [answerable |-> FALSE,
          reason |-> <<"Error during answerability check: ">> \o llm.val, calls |-> 1]
    ELSE LET response == Upper(Strip(llm.val))
         IN  IF StartsWith(response, <<"Y", "E", "S">>)
             THEN [answerable |-> TRUE, reason |-> SufficientReason, calls |-> 1]
             ELSE IF StartsWith(response, <<"N", "O">>)
             THEN [answerable |-> FALSE, reason |-> NoInformationReason, calls |-> 1]
             ELSE [answerable |-> FALSE,
                   reason |-> <<"Unexpected response from LLM: ">> \o response, calls |-> 1]

\* IsAnswerableAgent.check_answerability: llm is the outcome the Text Client
\* gives if it is called; calls is the number of Text Client calls made.
check_answerability(retrieved_info, llm) ==
    IF retrieved_info = <<>>
    THEN [answerable |-> FALSE, reason |-> NoInformationReason, calls |-> 0]
    ELSE IF ~llm.ok
    THEN [answerable |-> FALSE,
          reason |-> <<"Error during answerability check: ">> \o llm.val, calls |-> 1]
    ELSE LET response == Upper(Strip(llm.val))
         IN  IF StartsWith(response, <<"Y", "E", "S">>)
             THEN [answerable |-> TRUE, reason |-> SufficientReason, calls |-> 1]
             ELSE IF StartsWith(response, <<"N", "O">>)
             THEN [answerable |-> FALSE, reason |-> NoInformationReason, calls |-> 1]
             ELSE [answerable |-> FALSE,
                   reason |-> <<"Unexpected response from LLM: ">> \o response, calls |-> 1]

\* AnswerGenerator.generate_answer
generate_answer(llm) == IF llm.ok THEN Return(Strip(llm.val)) ELSE llm

RelevantReason == <<"relevant">>
NotRelevantReason == <<"not relevant">>

\* IsRelevantAgent.assess_relevance: the decoding policy of the
\* answerability checker, applied to the relevance question
assess_relevance(llm) ==
    IF ~llm.ok
    THEN [relevant |-> FALSE, reason |-> <<"error during check: ">> \o llm.val]
    ELSE LET response == Upper(Strip(llm.val))
         IN  IF StartsWith(response, <<"Y", "E", "S">>)
             THEN [relevant |-> TRUE, reason |-> RelevantReason]
             ELSE IF StartsWith(response, <<"N", "O">>)
             THEN [relevant |-> FALSE, reason |-> NotRelevantReason]
             ELSE [relevant |-> FALSE,
                   reason |-> <<"unexpected model response: ">> \o llm.val]

\* FollowUpGenerator.generate_follow_ups
generate_follow_ups(llm) ==
    IF ~llm.ok THEN llm
    ELSE LET lines == SplitLines(llm.val)
         IN  Return([i \in 1..Len(lines) |-> Strip(lines[i])])

FollowUpHeader == "Here are some follow-up questions you might consider:"

\* AlexupportAgent.format_final_answer
format_final_answer(answer, follow_ups) ==
    <<"\n", Indent>> \o answer \o <<"\n", Indent, FollowUpHeader, "\n", Indent>>
        \o Join(follow_ups, "; ") \o <<"\n", Indent>>

\* the two fallback templates; "--" stands for the em dash of the source
UnanswerableMessage(reason) ==
    <<"Sorry -- I couldn't find information reliable enough to answer that.\n\nReason: ">> \o reason
ExhaustedMessage(reason) ==
    <<"Sorry -- I couldn't find a relevant answer to that.\n\nReason: ">> \o reason
ErrorMessage(e) ==
    <<"An error occurred while processing your request: ">> \o e

HumanMessage(content, a) == [type |-> "human", content |-> content, under |-> a]
\* variant: the assistant turn is stored trimmed
AIMessage_Stripped(content, a) == [type |-> "ai", content |-> Strip(content), under |-> a]

AIMessage(content, a) == [type |-> "ai", content |-> content, under |-> a]

(***************************************************************************)
(* State                                                                   *)
(***************************************************************************)
VARIABLES
    history,        \* agent.memory.chat_memory.messages; field under: the product selected when the turn was recorded
    messages,       \* st.session_state["messages"]
    session_asin,   \* st.session_state["asin"], None before the first run
    pc,             \* where the running answer() call stands, "idle" between calls
    user_query,     \* arguments of the running answer() call
    asin,
    refined_query,  \* locals of answer()
    retrieved_info,
    answerable,
    reason1,
    iteration,
    answer,
    reason2,
    result,         \* what the last answer() call returned
    exit,           \* the exit it took: relevant, unanswerable, exhausted, error
    propagated,     \* TRUE when the last answer() call ended by an exception
    calls,          \* answer() calls started in this session
    n,              \* calls made by the running answer() call, by callee
    histAtStart,    \* the history at the entry of the running answer() call
    lastLLM,        \* what the last Text Client call of this turn did
    lastRelReason,  \* the reason returned by the last relevance check
    seenHistory,    \* the history read by the last generate_answer call
    verdicts,       \* the relevance verdicts of this turn, in order
    failed,         \* the stage whose exception reached the guard of answer(), and str(e)
    checkFailure,   \* str(e) of a Text Client failure inside check_answerability
    candidate,      \* the text the last generate_answer call of this turn returned
    matches,        \* the points the index returned to retrieve_information in this turn
    args,           \* the arguments of the last call of each microagent in this turn
    ck_pc,          \* check_answerability taken alone: off, call, done
    ck_info,        \* its retrieved_info argument
    ck_model,       \* what chat_model.invoke does if it is called
    ck_writeOk,     \* whether the token log can be written
    ck_result,      \* what check_answerability returned
    lp_pc,          \* list_products: off, loop (at the while test), done (returned)
    index,          \* the points of data_collection, in scroll order
    limit,          \* the limit argument of list_products
    collected,      \* list_products' collected
    page_offset,    \* list_products' page_offset: <<>> for None, <<k>> for offset k
    seen,           \* list_products' seen
    lp_points,      \* list_products' points: the page of the last scroll
    scrolls         \* scroll requests made by list_products

argVars == <<user_query, asin, histAtStart>>
localVars == <<refined_query, retrieved_info, answerable, reason1, iteration, answer, reason2>>
exitVars == <<history, messages, result, exit, propagated>>
ghostVars == <<lastRelReason, seenHistory, verdicts, checkFailure, matches, candidate>>
sessionVars == <<history, messages, session_asin, pc, user_query, asin, refined_query,
                 retrieved_info, answerable, reason1, iteration, answer, reason2, result,
                 exit, propagated, calls, n, histAtStart, lastLLM, lastRelReason,
                 seenHistory, verdicts, failed, checkFailure, matches, candidate, args>>
checkVars == <<ck_pc, ck_info, ck_model, ck_writeOk, ck_result>>
listVars == <<lp_pc, index, limit, collected, page_offset, seen, lp_points, scrolls>>
vars == <<sessionVars, checkVars, listVars>>

None == "None"
\* st.chat_input gives None (no text) when nothing was submitted
NoPrompt == <<>>
NoCalls == [refine |-> 0, retrieve |-> 0, check |-> 0, generate |-> 0,
            relevance |-> 0, followup |-> 0, llm |-> 0, checkllm |-> 0]
NoFailure == [stage |-> "none", cause |-> <<>>]
NoArgs == [retrieve |-> <<>>, check |-> <<>>, generate |-> <<>>, relevance |-> <<>>,
           followup |-> <<>>]

InitSession ==
    /\ history = <<>>
    /\ messages = <<>>
    /\ session_asin = None
    /\ pc = "idle"
    /\ user_query = <<>>
    /\ asin = None
    /\ refined_query = <<>>
    /\ retrieved_info = <<>>
    /\ answerable = FALSE
    /\ reason1 = <<>>
    /\ iteration = 0
    /\ answer = <<>>
    /\ reason2 = <<>>
    /\ result = <<>>
    /\ exit = "none"
    /\ propagated = FALSE
    /\ calls = 0
    /\ n = NoCalls
    /\ histAtStart = <<>>
    /\ lastLLM = NoCall
    /\ lastRelReason = <<>>
    /\ seenHistory = <<>>
    /\ verdicts = <<>>
    /\ failed = NoFailure
    /\ checkFailure = <<>>
    /\ matches = <<>>
    /\ candidate = <<>>
    /\ args = NoArgs

NoResult == [answerable |-> FALSE, reason |-> <<>>, calls |-> 0]

\* check_answerability is not running on its own
CheckOff ==
    /\ ck_pc = "off"
    /\ ck_info = <<>>
    /\ ck_model = Raise(<<>>)
    /\ ck_writeOk = TRUE
    /\ ck_result = NoResult

\* list_products is not running
ListOff ==
    /\ lp_pc = "off"
    /\ index = <<>>
    /\ limit = 0
    /\ collected = <<>>
    /\ page_offset = <<>>
    /\ seen = {}
    /\ lp_points = <<>>
    /\ scrolls = 0

\* a session of the chat page, the product list already loaded
Init == InitSession /\ CheckOff /\ ListOff

(***************************************************************************)
(* streamlit_app.main: one run of the script. The sidebar selects a        *)
(* product; a change of product resets the chat; a submitted prompt is     *)
(* recorded and answer() is entered (its first statement appends the user  *)
(* turn).                                                                  *)
(***************************************************************************)
\* variant: the memory is left as it is when the product changes
MemoryClear_Noop(h) == h

\* agent.memory.clear()
MemoryClear(h) == <<>>

ResetTurn ==
    /\ refined_query' = <<>>
    /\ retrieved_info' = <<>>
    /\ answerable' = FALSE
    /\ reason1' = <<>>
    /\ iteration' = 0
    /\ answer' = <<>>
    /\ reason2' = <<>>
    /\ result' = <<>>
    /\ exit' = "none"
    /\ propagated' = FALSE
    /\ n' = NoCalls
    /\ lastLLM' = NoCall
    /\ lastRelReason' = <<>>
    /\ seenHistory' = <<>>
    /\ verdicts' = <<>>
    /\ failed' = NoFailure
    /\ checkFailure' = <<>>
    /\ matches' = <<>>
    /\ candidate' = <<>>
    /\ args' = NoArgs

MainRerun(selected_asin, prompt) ==
    /\ pc = "idle"
    /\ LET changed == session_asin # selected_asin
           msgs == IF changed THEN <<>> ELSE messages
           hist == IF changed THEN MemoryClear(history) ELSE history
       IN  /\ session_asin' = selected_asin
           /\ ResetTurn
           /\ IF prompt = NoPrompt
              THEN /\ messages' = msgs
                   /\ history' = hist
                   /\ pc' = "idle"
                   /\ user_query' = <<>>
                   /\ asin' = None
                   /\ histAtStart' = hist
                   /\ calls' = calls
              ELSE /\ calls < MaxCalls
                   /\ messages' = Append(msgs, [role |-> "user", content |-> prompt])
                   /\ history' = Append(hist, HumanMessage(prompt, selected_asin))
                   /\ pc' = "refine"
                   /\ user_query' = prompt
                   /\ asin' = selected_asin
                   /\ histAtStart' = hist
                   /\ calls' = calls + 1
    /\ UNCHANGED <<checkVars, listVars>>

(***************************************************************************)
(* AlexupportAgent.answer, one action per call it makes                    *)
(***************************************************************************)
\* variant: the assistant turn overwrites the last turn instead of being appended
ReturnFrom_Overwrite(kind, final_answer) ==
    /\ history' = [history EXCEPT ![Len(history)] = AIMessage(final_answer, asin)]
    /\ result' = final_answer
    /\ exit' = kind
    /\ propagated' = FALSE
    /\ messages' = Append(messages, [role |-> "assistant", content |-> final_answer])
    /\ pc' = "idle"

\* return final_answer, after appending it as the assistant turn; main then
\* records the response
ReturnFrom(kind, final_answer) ==
    /\ history' = Append(history, AIMessage(final_answer, asin))
    /\ result' = final_answer
    /\ exit' = kind
    /\ propagated' = FALSE
    /\ messages' = Append(messages, [role |-> "assistant", content |-> final_answer])
    /\ pc' = "idle"

\* variant: no guard around the body of answer(); the exception reaches main,
\* which shows "Error: e"
ErrorExit_Propagates(e) ==
    /\ history' = history
    /\ result' = result
    /\ exit' = "error"
    /\ propagated' = TRUE
    /\ messages' = Append(messages, [role |-> "assistant", content |-> <<"Error: ">> \o e])
    /\ pc' = "idle"

\* variant: the guard returns the error message without recording it
ErrorExit_NoAppend(e) ==
    /\ history' = history
    /\ result' = ErrorMessage(e)
    /\ exit' = "error"
    /\ propagated' = FALSE
    /\ messages' = Append(messages, [role |-> "assistant", content |-> ErrorMessage(e)])
    /\ pc' = "idle"

\* except Exception as e
ErrorExit(e) == ReturnFrom("error", ErrorMessage(e))

Continue(next) ==
    /\ pc' = next
    /\ failed' = failed
    /\ UNCHANGED exitVars

\* the arguments answer() passes to its microagents
\* variant: the index is searched with the raw question
RetrieveArgs_Raw == [query |-> user_query, product_id |-> asin]

RetrieveArgs == [query |-> refined_query, product_id |-> asin]
CheckArgs == [user_question |-> refined_query, retrieved_info |-> retrieved_info]
RelevanceArgs ==
    [user_question |-> refined_query, generated_response |-> answer, context |-> retrieved_info]

\* variant: the follow-ups are asked for the raw question
FollowUpArgs_Raw == [user_question |-> user_query, context |-> retrieved_info]

FollowUpArgs == [user_question |-> refined_query, context |-> retrieved_info]

\* variant: a retry is asked with the raw question
GenerateArgs_RawOnRetry ==
    [user_question |-> IF iteration = 0 THEN refined_query ELSE user_query,
     context |-> retrieved_info]

GenerateArgs == [user_question |-> refined_query, context |-> retrieved_info]

\* Step 1: refine_input
Refine ==
    /\ pc = "refine"
    /\ \E model \in ModelOutcomes(RefinerTexts), writeOk \in BOOLEAN :
         LET llm == generate_response(model, writeOk)
             out == refine_input(llm)
         IN  /\ n' = [n EXCEPT !.refine = @ + 1, !.llm = @ + 1]
             /\ lastLLM' = CallRecord(model, llm)
             /\ IF out.ok
                THEN /\ refined_query' = out.val
                     /\ Continue("retrieve")
                ELSE /\ refined_query' = refined_query
                     /\ failed' = [stage |-> "refine", cause |-> out.val]
                     /\ ErrorExit(out.val)
    /\ UNCHANGED <<session_asin, calls, argVars, retrieved_info, answerable, reason1,
                   iteration, answer, reason2, ghostVars, args>>
    /\ UNCHANGED <<checkVars, listVars>>

\* Step 2: retrieve_information
Retrieve ==
    /\ pc = "retrieve"
    /\ \E model \in EmbeddingOutcomes, writeOk \in BOOLEAN,
          query \in QueryOutcomes(QueryFilter(RetrieveArgs.product_id)) :
         LET emb == generate_embeddings(model, writeOk)
             out == retrieve_information(emb, query)
         IN  /\ n' = [n EXCEPT !.retrieve = @ + 1, !.llm = @ + 1]
             /\ matches' = IF emb.ok /\ query.ok THEN query.val ELSE <<>>
             /\ lastLLM' = CallRecord(model, emb)
             /\ IF out.ok
                THEN /\ retrieved_info' = out.val
                     /\ Continue("check")
                ELSE /\ retrieved_info' = retrieved_info
                     /\ failed' = [stage |-> "retrieve", cause |-> out.val]
                     /\ ErrorExit(out.val)
    /\ args' = [args EXCEPT !.retrieve = RetrieveArgs]
    /\ UNCHANGED <<session_asin, calls, argVars, refined_query, answerable, reason1,
                   iteration, answer, reason2, lastRelReason, seenHistory, verdicts, candidate,
                   checkFailure>>
    /\ UNCHANGED <<checkVars, listVars>>

\* Step 3: check_answerability, then the branch on its verdict
CheckAnswerability ==
    /\ pc = "check"
    /\ \E model \in ModelOutcomes(CheckerTexts), writeOk \in BOOLEAN :
         LET llm == generate_response(model, writeOk)
             v == check_answerability(CheckArgs.retrieved_info, llm)
         IN  /\ n' = [n EXCEPT !.check = @ + 1, !.llm = @ + v.calls, !.checkllm = @ + v.calls]
             /\ lastLLM' = IF v.calls = 0 THEN lastLLM ELSE CallRecord(model, llm)
             /\ answerable' = v.answerable
             /\ reason1' = v.reason
             /\ checkFailure' = IF v.calls > 0 /\ ~llm.ok THEN llm.val ELSE <<>>
             /\ IF ~v.answerable
                THEN Continue("followup_unanswerable")
                ELSE Continue("generate")
    /\ iteration' = 0
    /\ args' = [args EXCEPT !.check = CheckArgs]
    /\ UNCHANGED <<session_asin, calls, argVars, refined_query, retrieved_info,
                   answer, reason2, lastRelReason, seenHistory, verdicts, matches, candidate>>
    /\ UNCHANGED <<checkVars, listVars>>

\* variant: the fallback message leaves the reason out
UnanswerableFallback_NoReason == UnanswerableMessage(<<>>)

\* msg of the unanswerable branch
UnanswerableFallback == UnanswerableMessage(reason1)

\* the unanswerable branch: follow-ups, fallback message, return
FollowUpUnanswerable ==
    /\ pc = "followup_unanswerable"
    /\ \E model \in ModelOutcomes(FollowUpTexts), writeOk \in BOOLEAN :
         LET llm == generate_response(model, writeOk)
             out == generate_follow_ups(llm)
         IN  /\ n' = [n EXCEPT !.followup = @ + 1, !.llm = @ + 1]
             /\ lastLLM' = CallRecord(model, llm)
             /\ IF out.ok
                THEN /\ failed' = failed
                     /\ ReturnFrom("unanswerable",
                                   format_final_answer(UnanswerableFallback, out.val))
                ELSE /\ failed' = [stage |-> "followup", cause |-> out.val]
                     /\ ErrorExit(out.val)
    /\ args' = [args EXCEPT !.followup = FollowUpArgs]
    /\ UNCHANGED <<session_asin, calls, argVars, localVars, ghostVars>>
    /\ UNCHANGED <<checkVars, listVars>>

\* variant: the loop test is off by one
LoopCondition_OffByOne(i) == i <= MaxIterations

\* while iteration < 5
LoopCondition(i) == i < MaxIterations

\* variant: the candidate of the first attempt is kept over the later ones
BindAnswer_KeepFirst(old, new) == IF old = <<>> THEN new ELSE old

\* answer = self.answer_generator.generate_answer(...)
BindAnswer(old, new) == new

\* Step 4: generate_answer
GenerateAnswer ==
    /\ pc = "generate"
    /\ n.generate < MaxAttempts
    /\ \E model \in ModelOutcomes(AnswerTexts), writeOk \in BOOLEAN :
         LET llm == generate_response(model, writeOk)
             out == generate_answer(llm)
         IN  /\ n' = [n EXCEPT !.generate = @ + 1, !.llm = @ + 1]
             /\ lastLLM' = CallRecord(model, llm)
             /\ IF out.ok
                THEN /\ answer' = BindAnswer(answer, out.val)
                     /\ candidate' = out.val
                     /\ Continue("relevance")
                ELSE /\ answer' = answer
                     /\ candidate' = <<>>
                     /\ failed' = [stage |-> "generate", cause |-> out.val]
                     /\ ErrorExit(out.val)
    /\ seenHistory' = history
    /\ args' = [args EXCEPT !.generate = GenerateArgs]
    /\ UNCHANGED <<session_asin, calls, argVars, refined_query, retrieved_info,
                   answerable, reason1, iteration, reason2, lastRelReason, verdicts,
                   checkFailure, matches>>
    /\ UNCHANGED <<checkVars, listVars>>

\* variant: the reason of the first check is kept over the later ones
UnpackReason_KeepFirst(old, verdict) == IF old = <<>> THEN verdict.reason ELSE old

\* relevant, reason2 = relevance_result
UnpackReason(old, verdict) == verdict.reason

\* variant: the attempt counter is not advanced
IncrementIteration_Forgotten(i) == i

\* iteration += 1
IncrementIteration(i) == i + 1

\* Step 5: assess_relevance, then the branch on its verdict and the loop test
AssessRelevance ==
    /\ pc = "relevance"
    /\ \E model \in ModelOutcomes(CheckerTexts), writeOk \in BOOLEAN :
         LET llm == generate_response(model, writeOk)
             v == assess_relevance(llm)
         IN  /\ n' = [n EXCEPT !.relevance = @ + 1, !.llm = @ + 1]
             /\ lastLLM' = CallRecord(model, llm)
             /\ reason2' = UnpackReason(reason2, v)
             /\ lastRelReason' = v.reason
             /\ verdicts' = Append(verdicts, v.relevant)
             /\ IF v.relevant
                THEN /\ iteration' = iteration
                     /\ Continue("followup_relevant")
                ELSE /\ iteration' = IncrementIteration(iteration)
                     /\ IF LoopCondition(IncrementIteration(iteration))
                        THEN Continue("generate")
                        ELSE Continue("followup_exhausted")
    /\ args' = [args EXCEPT !.relevance = RelevanceArgs]
    /\ UNCHANGED <<session_asin, calls, argVars, refined_query, retrieved_info,
                   answerable, reason1, answer, seenHistory, checkFailure, matches, candidate>>
    /\ UNCHANGED <<checkVars, listVars>>

\* Step 6: the relevant branch: follow-ups, final answer, return
FollowUpRelevant ==
    /\ pc = "followup_relevant"
    /\ \E model \in ModelOutcomes(FollowUpTexts), writeOk \in BOOLEAN :
         LET llm == generate_response(model, writeOk)
             out == generate_follow_ups(llm)
         IN  /\ n' = [n EXCEPT !.followup = @ + 1, !.llm = @ + 1]
             /\ lastLLM' = CallRecord(model, llm)
             /\ IF out.ok
                THEN /\ failed' = failed
                     /\ ReturnFrom("relevant", format_final_answer(answer, out.val))
                ELSE /\ failed' = [stage |-> "followup", cause |-> out.val]
                     /\ ErrorExit(out.val)
    /\ args' = [args EXCEPT !.followup = FollowUpArgs]
    /\ UNCHANGED <<session_asin, calls, argVars, localVars, ghostVars>>
    /\ UNCHANGED <<checkVars, listVars>>

\* after the loop: follow-ups, exhausted-retries message, return
FollowUpExhausted ==
    /\ pc = "followup_exhausted"
    /\ \E model \in ModelOutcomes(FollowUpTexts), writeOk \in BOOLEAN :
         LET llm == generate_response(model, writeOk)
             out == generate_follow_ups(llm)
         IN  /\ n' = [n EXCEPT !.followup = @ + 1, !.llm = @ + 1]
             /\ lastLLM' = CallRecord(model, llm)
             /\ IF out.ok
                THEN /\ failed' = failed
                     /\ ReturnFrom("exhausted",
                                   format_final_answer(ExhaustedMessage(reason2), out.val))
                ELSE /\ failed' = [stage |-> "followup", cause |-> out.val]
                     /\ ErrorExit(out.val)
    /\ args' = [args EXCEPT !.followup = FollowUpArgs]
    /\ UNCHANGED <<session_asin, calls, argVars, localVars, ghostVars>>
    /\ UNCHANGED <<checkVars, listVars>>

Next ==
    \/ \E a \in Products, prompt \in Questions \cup {NoPrompt} : MainRerun(a, prompt)
    \/ Refine
    \/ Retrieve
    \/ CheckAnswerability
    \/ FollowUpUnanswerable
    \/ GenerateAnswer
    \/ AssessRelevance
    \/ FollowUpRelevant
    \/ FollowUpExhausted

Spec == Init /\ [][Next]_vars

\* the steps of a running answer() call: each of them is a call that returns or raises
Step ==
    \/ Refine
    \/ Retrieve
    \/ CheckAnswerability
    \/ FollowUpUnanswerable
    \/ GenerateAnswer
    \/ AssessRelevance
    \/ FollowUpRelevant
    \/ FollowUpExhausted

\* sessions of at most MaxFairCalls turns
NextFair ==
    \/ \E a \in Products, prompt \in Questions \cup {NoPrompt} :
         /\ prompt # NoPrompt => calls < MaxFairCalls
         /\ MainRerun(a, prompt)
    \/ Step

(***************************************************************************)
(* check_answerability taken alone, on every short text the chat model can *)
(* give                                                                    *)
(***************************************************************************)
RawAlphabet == {" ", "y", "Y", "e", "s", "n", "O", "m"}
RawTexts == UNION {[1..k -> RawAlphabet] : k \in 0..MaxRawLen}
Evidence == {<<>>, << <<"A1", " answer">> >>}

InitCheck ==
    /\ InitSession
    /\ ListOff
    /\ ck_pc = "call"
    /\ ck_info \in Evidence
    /\ ck_model \in ModelOutcomes(RawTexts)
    /\ ck_writeOk \in BOOLEAN
    /\ ck_result = NoResult

\* one call of check_answerability(user_question, retrieved_info)
Check ==
    /\ ck_pc = "call"
    /\ ck_result' = check_answerability(ck_info, generate_response(ck_model, ck_writeOk))
    /\ ck_pc' = "done"
    /\ UNCHANGED <<ck_info, ck_model, ck_writeOk, sessionVars, listVars>>

NextCheck == Check

SpecCheck == InitCheck /\ [][NextCheck]_vars

(***************************************************************************)
(* InformationRetriever.list_products                                      *)
(***************************************************************************)
Titles == {"T1", "T2"}
\* the payloads of the points: "asin" and "productTitle" may be missing
\* (payload.get gives None)
ListedPoints == [asin : Products \cup {None}, productTitle : Titles \cup {None}]
Indexes == UNION {[1..k -> ListedPoints] : k \in 0..MaxIndex}

NoOffset == <<>>
\* where the next page starts
OffsetOf(o) == IF o = NoOffset THEN 0 ELSE o[1]

\* qdrant_client.scroll(limit=256, offset=o): the pages the index can give,
\* each with the offset of the next one (None after the last point)
ScrollResponses(o) ==
    LET start == OffsetOf(o)
        rest == Len(index) - start
        most == IF rest < ScrollLimit THEN rest ELSE ScrollLimit
    IN  IF rest = 0
        THEN {[points |-> <<>>, next_page_offset |-> NoOffset]}
        ELSE {[points |-> SubSeq(index, start + 1, start + k),
               next_page_offset |-> IF k = rest THEN NoOffset ELSE <<start + k>>]
              : k \in 1..most}

Untitled == "(untitled)"

\* variant: the asin is not looked up in seen
AddPoint_NoSeenCheck(acc, p) ==
    IF p.asin # None
    THEN [collected |-> Append(acc.collected,
                               [asin |-> p.asin,
                                productTitle |-> IF p.productTitle = None THEN Untitled
                                                 ELSE p.productTitle]),
          seen |-> acc.seen \cup {p.asin}]
    ELSE acc

\* the body of "for p in points"
AddPoint(acc, p) ==
    IF p.asin # None /\ p.asin \notin acc.seen
    THEN [collected |-> Append(acc.collected,
                               [asin |-> p.asin,
                                productTitle |-> IF p.productTitle = None THEN Untitled
                                                 ELSE p.productTitle]),
          seen |-> acc.seen \cup {p.asin}]
    ELSE acc

\* for p in points: ...
RECURSIVE AddPoints(_, _)
AddPoints(acc, points) ==
    IF points = <<>> THEN acc
    ELSE AddPoints(AddPoint(acc, Head(points)), Tail(points))

\* list_products(limit) is entered: collected, page_offset, seen = [], None, set()
InitList ==
    /\ InitSession
    /\ CheckOff
    /\ lp_pc = "loop"
    /\ index \in Indexes
    /\ limit \in 0..MaxLimit
    /\ collected = <<>>
    /\ page_offset = NoOffset
    /\ seen = {}
    /\ lp_points = <<>>
    /\ scrolls = 0

\* variant: the loop goes on when the index reports no next page
AfterPage_KeepPaging(next_page_offset) == "loop"

\* if page_offset is None: break
AfterPage(next_page_offset) == IF next_page_offset = NoOffset THEN "done" ELSE "loop"

\* one iteration of "while len(collected) < limit"
ScrollPage ==
    /\ lp_pc = "loop"
    /\ Len(collected) < limit
    /\ scrolls <= MaxIndex
    /\ \E resp \in ScrollResponses(page_offset) :
         LET acc == AddPoints([collected |-> collected, seen |-> seen], resp.points)
         IN  /\ scrolls' = scrolls + 1
             /\ page_offset' = resp.next_page_offset
             /\ lp_points' = resp.points
             /\ IF resp.points = <<>>
                THEN /\ lp_pc' = "done"
                     /\ UNCHANGED <<collected, seen>>
                ELSE /\ collected' = acc.collected
                     /\ seen' = acc.seen
                     /\ lp_pc' = AfterPage(resp.next_page_offset)
    /\ UNCHANGED <<index, limit, sessionVars, checkVars>>

\* the while test fails: return collected
ListReturn ==
    /\ lp_pc = "loop"
    /\ ~(Len(collected) < limit)
    /\ lp_pc' = "done"
    /\ UNCHANGED <<index, limit, collected, page_offset, seen, lp_points, scrolls,
                   sessionVars, checkVars>>

NextList ==
    \/ ScrollPage
    \/ ListReturn

SpecList == InitList /\ [][NextList]_vars

\* each scroll request returns and the loop goes on
FairSpecList == SpecList /\ WF_vars(NextList)

\* a running call is not suspended forever: its pending external call completes
FairSpec == Init /\ [][NextFair]_vars /\ WF_vars(Step)

(***************************************************************************)
(* Properties                                                              *)
(***************************************************************************)
\* the last answer() call has ended and the script has not run again
Finished == pc = "idle" /\ exit # "none"

\* t occurs in s
Contains(s, t) ==
    \E i \in 0..(Len(s) - Len(t)) : SubSeq(s, i + 1, i + Len(t)) = t

\* the follow-up lists the Follow-up Generator can return
FollowUpLists == {generate_follow_ups(Return(t)).val : t \in FollowUpTexts}

AllIrrelevant == Len(verdicts) = 5 /\ \A k \in 1..5 : ~verdicts[k]

LastTurn == history[Len(history)]

\* C1: in one answer() call the Answer Generator and the Relevance Checker are
\* each called at most 5 times, and the call returns on the first relevant
\* verdict: when attempt k is judged relevant, both have been called exactly
\* k times and neither is called again in that turn.
C1_RetryLoopStopsAtFirstRelevant ==
    /\ n.generate <= 5
    /\ n.relevance <= 5
    /\ Len(verdicts) = n.relevance
    /\ n.generate > 0 => answerable
    /\ \A k \in 1..Len(verdicts) :
         verdicts[k] => /\ k = Len(verdicts)
                        /\ n.generate = k
                        /\ n.relevance = k
                        /\ pc \in {"followup_relevant", "idle"}
    /\ exit = "relevant" => Len(verdicts) > 0 /\ verdicts[Len(verdicts)]

C1_Witness ==
    /\ Finished
    /\ exit = "relevant"
    /\ verdicts = <<FALSE, FALSE, TRUE>>
    /\ n.generate = 3
    /\ n.relevance = 3

\* C2 as stated: when the relevance verdict is false on all 5 attempts,
\* answer() has called the Answer Generator exactly 5 times and returns the
\* Exhausted-retries fallback message with the reason of the 5th check.
C2_ExhaustedAlwaysReturnsFallback ==
    (Finished /\ AllIrrelevant) =>
        /\ n.generate = 5
        /\ exit = "exhausted"
        /\ \E fus \in FollowUpLists :
             result = format_final_answer(ExhaustedMessage(lastRelReason), fus)

\* C2 amended: when the relevance verdict is false on all 5 attempts,
\* answer() has called the Answer Generator exactly 5 times and returns the
\* Exhausted-retries fallback message with the reason of the 5th check,
\* unless the follow-up generation made on that exit fails: then it returns
\* the generic error message with the cause of that failure.
C2_ExhaustedReturnsFallbackOrFollowUpError ==
    (Finished /\ AllIrrelevant) =>
        /\ n.generate = 5
        /\ n.followup = 1
        /\ \/ /\ failed.stage = "none"
              /\ exit = "exhausted"
              /\ \E fus \in FollowUpLists :
                   result = format_final_answer(ExhaustedMessage(lastRelReason), fus)
           \/ /\ failed.stage = "followup"
              /\ exit = "error"
              /\ result = ErrorMessage(failed.cause)

C2_Witness ==
    /\ Finished
    /\ AllIrrelevant
    /\ exit = "exhausted"
    /\ n.generate = 5
    /\ lastRelReason = <<"error during check: ">> \o TransportError
    /\ Contains(result, lastRelReason)

\* C3 as stated: when the answerability verdict is false, the Answer Generator
\* and the Relevance Checker are never called in that turn, and the turn ends
\* with one follow-up generation and the Unanswerable fallback message with
\* the verdict's reason, returned and appended as the assistant turn.
C3_UnanswerableAlwaysReturnsFallback ==
    (n.check = 1 /\ ~answerable) =>
        /\ n.generate = 0
        /\ n.relevance = 0
        /\ Finished =>
             /\ n.followup = 1
             /\ exit = "unanswerable"
             /\ \E fus \in FollowUpLists :
                  result = format_final_answer(UnanswerableMessage(reason1), fus)
             /\ Contains(result, reason1)
             /\ LastTurn = AIMessage(result, asin)

\* C3 amended: when the answerability verdict is false, the Answer Generator
\* and the Relevance Checker are never called in that turn, and the turn ends
\* with one follow-up generation and the Unanswerable fallback message with
\* the verdict's reason, returned and appended as the assistant turn, unless
\* that follow-up generation fails: then the generic error message with the
\* cause of that failure is returned and appended.
C3_UnanswerableReturnsFallbackOrFollowUpError ==
    (n.check = 1 /\ ~answerable) =>
        /\ n.generate = 0
        /\ n.relevance = 0
        /\ Finished =>
             /\ n.followup = 1
             /\ LastTurn = AIMessage(result, asin)
             /\ \/ /\ failed.stage = "none"
                   /\ exit = "unanswerable"
                   /\ \E fus \in FollowUpLists :
                        result = format_final_answer(UnanswerableMessage(reason1), fus)
                   /\ Contains(result, reason1)
                \/ /\ failed.stage = "followup"
                   /\ exit = "error"
                   /\ result = ErrorMessage(failed.cause)

C3_Witness ==
    /\ Finished
    /\ n.check = 1
    /\ ~answerable
    /\ retrieved_info # <<>>
    /\ exit = "unanswerable"
    /\ reason1 = NoInformationReason

\* C4: no answer() call ends by an exception, and every ended call has
\* returned a string; when a stage raised (refiner, retriever, answer
\* generator or follow-up generator; the two checkers do not raise), the
\* string returned is the error message with str(e) of that exception.
C4_AlwaysReturnsAString ==
    /\ ~propagated
    /\ Finished => result # <<>>
    /\ failed.stage # "none" =>
         /\ Finished
         /\ exit = "error"
         /\ result = <<"An error occurred while processing your request: ">> \o failed.cause
         /\ failed.cause # <<>>
    /\ exit = "error" => failed.stage # "none"

C4_Witness ==
    /\ Finished
    /\ exit = "error"
    /\ failed.stage = "followup"
    /\ verdicts = <<FALSE, TRUE>>

\* C5: when refine_input or retrieve_information raises, no later stage is
\* called in that turn, the history is the history at entry plus the user
\* turn plus one assistant turn holding the error message with the cause,
\* and that message is what answer() returns.
C5_RefineOrRetrieveFailureAborts ==
    failed.stage \in {"refine", "retrieve"} =>
        /\ Finished
        /\ n.check = 0 /\ n.generate = 0 /\ n.relevance = 0 /\ n.followup = 0
        /\ failed.stage = "refine" => n.retrieve = 0
        /\ result = ErrorMessage(failed.cause)
        /\ history = histAtStart \o <<HumanMessage(user_query, asin),
                                      AIMessage(ErrorMessage(failed.cause), asin)>>

C5_Witness ==
    /\ failed.stage = "retrieve"
    /\ failed.cause = <<"Error retrieving information: ">> \o IndexError
    /\ Len(history) = 4

\* C6 as stated: a Text Client failure inside check_answerability on
\* non-empty evidence gives the verdict (false, reason naming the cause), and
\* the turn then ends through the Unanswerable exit with that reason, never
\* through the error exit.
C6_CheckFailureAlwaysEndsUnanswerable ==
    checkFailure # <<>> =>
        /\ retrieved_info # <<>>
        /\ ~answerable
        /\ Contains(reason1, checkFailure)
        /\ pc \in {"followup_unanswerable", "idle"}
        /\ Finished =>
             /\ exit = "unanswerable"
             /\ \E fus \in FollowUpLists :
                  result = format_final_answer(UnanswerableMessage(reason1), fus)

\* C6 amended: a Text Client failure inside check_answerability on non-empty
\* evidence gives the verdict (false, reason naming the cause) and does not
\* by itself abort the turn: the turn goes on to the follow-up generation of
\* the Unanswerable exit and ends through that exit with that reason, unless
\* that follow-up generation fails too, which ends the turn through the
\* error exit.
C6_CheckFailureEndsUnanswerableOrFollowUpError ==
    checkFailure # <<>> =>
        /\ retrieved_info # <<>>
        /\ ~answerable
        /\ Contains(reason1, checkFailure)
        /\ pc \in {"followup_unanswerable", "idle"}
        /\ Finished =>
             /\ n.followup = 1
             /\ \/ /\ failed.stage = "none"
                   /\ exit = "unanswerable"
                   /\ \E fus \in FollowUpLists :
                        result = format_final_answer(UnanswerableMessage(reason1), fus)
                \/ /\ failed.stage = "followup"
                   /\ exit = "error"

C6_Witness ==
    /\ Finished
    /\ checkFailure = TransportError
    /\ exit = "unanswerable"
    /\ Contains(result, TransportError)

\* C7: a failed token-usage log write does not affect the caller: a Text
\* Client call whose model answered returns that answer even when the log
\* write fails.
C7_LogFailureDoesNotAffectResponse ==
    lastLLM.logFailed => lastLLM.returned

\* C8: each answer() call adds exactly two turns to the history it found:
\* while it runs the history is the history at entry plus the user turn with
\* the original question; when it has ended, on any exit, the history is the
\* history at entry plus that user turn plus one assistant turn.
C8_HistoryAppendOnly ==
    /\ pc # "idle" => history = histAtStart \o <<HumanMessage(user_query, asin)>>
    /\ Finished =>
         /\ Len(history) = Len(histAtStart) + 2
         /\ SubSeq(history, 1, Len(histAtStart)) = histAtStart
         /\ history[Len(histAtStart) + 1] = HumanMessage(user_query, asin)
         /\ LastTurn.type = "ai"
         /\ LastTurn.content = result

C8_Witness ==
    /\ Finished
    /\ exit = "exhausted"
    /\ Len(histAtStart) = 2
    /\ Len(history) = 4
    /\ histAtStart[2].content = ErrorMessage(TransportError)

\* C9: the history read by the Answer Generator holds only turns recorded
\* under the product selected for the running call; none survives from a
\* previously selected product.
C9_HistoryClearedOnProductChange ==
    /\ \A i \in 1..Len(seenHistory) : seenHistory[i].under = asin
    /\ \A i \in 1..Len(history) : history[i].under = session_asin

C9_Witness ==
    /\ calls = 2
    /\ pc = "relevance"
    /\ n.generate = 1
    /\ asin = "A2"
    /\ seenHistory = <<HumanMessage(user_query, "A2")>>

\* C10: on empty evidence check_answerability gives a false verdict and makes
\* no Text Client call.
C10_EmptyEvidenceShortCircuits ==
    (n.check = 1 /\ retrieved_info = <<>>) =>
        /\ ~answerable
        /\ n.checkllm = 0
        /\ n.llm = n.refine + n.retrieve + n.followup

C10_Witness ==
    /\ n.check = 1
    /\ retrieved_info = <<>>
    /\ pc = "followup_unanswerable"


SnippetsOf(point) ==
    (IF "answers" \in DOMAIN point.payload THEN point.payload.answers ELSE <<>>)
        \o (IF "review_snippets" \in DOMAIN point.payload
            THEN point.payload.review_snippets ELSE <<>>)

C16_EvidenceOfSelectedProductOnly ==
    /\ \A i \in 1..Len(matches) : matches[i].asin = asin
    /\ \A i \in 1..Len(retrieved_info) :
         \A k \in 1..Len(retrieved_info[i]) : retrieved_info[i][k][1] = asin
    /\ n.retrieve > 0 => args.retrieve.product_id = asin
    /\ n.check > 0 => args.check.retrieved_info = retrieved_info
    /\ n.generate > 0 => args.generate.context = retrieved_info
    /\ n.followup > 0 => args.followup.context = retrieved_info

C16_Witness ==
    /\ calls = 2
    /\ asin = "A2"
    /\ Len(history) = 4
    /\ Len(retrieved_info) = 2
    /\ n.generate = 1
    /\ n.followup = 1

\* C17: on the success exit the returned string is the generated answer,
\* then the line "Here are some follow-up questions you might consider:",
\* then the follow-up questions joined by "; "; it starts with the answer.
C17_SuccessMessageStartsWithAnswer ==
    (Finished /\ exit = "relevant") =>
        /\ StartsWith(result, answer)
        /\ \E fus \in FollowUpLists :
             result = answer \o <<"\n", FollowUpHeader, "\n">> \o Join(fus, "; ")


\* the stages of a running call between the user append and the final append
InCall == pc # "idle"

\* C18: within one answer() call the history is the history at entry plus
\* the user turn until the final append, which adds exactly the returned
\* assistant turn; the refined query and the evidence do not change during
\* the retry loop, and every attempt after the first is made with the same
\* arguments and reads the same history as the attempt before it, so no
\* rejected candidate is ever written to the history.
C18_AttemptsSeeTheSameInputs ==
    /\ [](InCall => history = Append(histAtStart, HumanMessage(user_query, asin)))
    /\ [](Finished =>
            history = Append(Append(histAtStart, HumanMessage(user_query, asin)),
                             AIMessage(result, asin)))
    /\ [][(InCall /\ pc' # "idle") =>
            /\ history' = history
            /\ (n.generate > 0 =>
                  /\ refined_query' = refined_query
                  /\ retrieved_info' = retrieved_info)
            /\ (n.generate > 0 /\ n'.generate = n.generate + 1 =>
                  /\ args'.generate = args.generate
                  /\ seenHistory' = seenHistory)]_vars

C18_Witness ==
    /\ pc = "relevance"
    /\ n.generate = 3
    /\ verdicts = <<FALSE, FALSE>>
    /\ seenHistory = Append(histAtStart, HumanMessage(user_query, asin))
    /\ Len(histAtStart) = 2

ExitKinds == {"unanswerable", "relevant", "exhausted", "error"}

\* C19: every answer() call whose external calls return or fail comes to an
\* end, on exactly one of the exits Unanswerable, Relevant, Exhausted or
\* Error; the retry loop is left by a relevant verdict or after the fifth
\* attempt, never later.
C19_AnswerTerminates ==
    /\ InCall ~> (Finished /\ exit \in ExitKinds)
    /\ [](pc = "generate" => n.generate < 5)
    /\ []((Finished /\ exit = "relevant") => verdicts[Len(verdicts)])
    /\ []((Finished /\ exit = "exhausted") => n.generate = 5 /\ AllIrrelevant)

C19_Witness ==
    /\ Finished
    /\ exit = "exhausted"
    /\ iteration = 5
    /\ n.relevance = 5
    /\ n.llm = 14

\* C20: in every turn the stages run in the order refine, retrieve, check,
\* generate; the refiner, the retriever and the checker run at most once;
\* the generator runs only after a true answerability verdict; and the
\* retrieval and every later stage are given the refined query, never the
\* raw question.
C20_StagesInOrderOnRefinedQuery ==
    /\ n.refine <= 1 /\ n.retrieve <= 1 /\ n.check <= 1
    /\ n.retrieve > 0 => (n.refine = 1 /\ failed.stage # "refine")
    /\ n.check > 0 => (n.retrieve = 1 /\ failed.stage # "retrieve")
    /\ n.generate > 0 => (n.check = 1 /\ answerable)
    /\ n.relevance > 0 => n.generate > 0
    /\ n.retrieve > 0 => (args.retrieve.query = refined_query /\ refined_query # user_query)
    /\ n.check > 0 => args.check.user_question = refined_query
    /\ n.generate > 0 => args.generate.user_question = refined_query
    /\ n.relevance > 0 => args.relevance.user_question = refined_query
    /\ n.followup > 0 => args.followup.user_question = refined_query

C20_Witness ==
    /\ Finished
    /\ exit = "relevant"
    /\ n.refine = 1 /\ n.retrieve = 1 /\ n.check = 1
    /\ n.generate = 2
    /\ refined_query = <<"r2">>
    /\ args.generate.user_question = <<"r2">>


\* what the Text Client gave to the answerability check taken alone
CheckResponse == generate_response(ck_model, ck_writeOk)

\* the check consulted the chat model and got a text back
Decoded ==
    /\ ck_pc = "done"
    /\ ck_result.calls = 1
    /\ CheckResponse.ok

\* C12: the answerability checker decodes the model's text three ways: a
\* text starting with "yes" in any letter case gives a true verdict, a text
\* starting with "no" in any letter case gives a false verdict, and any
\* other text gives a false verdict whose reason contains the text as the
\* model gave it.
C12_DecodesThreeWaysQuotingRawText ==
    Decoded =>
        LET t == CheckResponse.val
        IN  IF StartsWith(Upper(t), <<"Y", "E", "S">>) THEN ck_result.answerable
            ELSE IF StartsWith(Upper(t), <<"N", "O">>) THEN ~ck_result.answerable
            ELSE /\ ~ck_result.answerable
                 /\ Contains(ck_result.reason, t)


\* list_products has returned collected
Listed == lp_pc = "done"

\* C13: list_products(limit) returns at most limit entries, whatever the
\* limit, the index content and the page layout.
C13_ListHasAtMostLimitEntries == Listed => Len(collected) <= limit

\* the first point of the index with asin a
FirstPoint(a) ==
    index[CHOOSE i \in 1..Len(index) :
            /\ index[i].asin = a
            /\ \A j \in 1..(i - 1) : index[j].asin # a]

\* C14: list_products never holds two entries with the same asin, in one
\* page or across pages, and the entry of an asin carries the title of the
\* first point with that asin ("(untitled)" when that point has none).
C14_ListHasDistinctAsinsFirstTitle ==
    /\ \A i, j \in 1..Len(collected) : i # j => collected[i].asin # collected[j].asin
    /\ seen = {collected[i].asin : i \in 1..Len(collected)}
    /\ \A i \in 1..Len(collected) :
         /\ collected[i].asin \in Products
         /\ \E k \in 1..Len(index) : index[k].asin = collected[i].asin
         /\ collected[i].productTitle =
              IF FirstPoint(collected[i].asin).productTitle = None THEN Untitled
              ELSE FirstPoint(collected[i].asin).productTitle

C14_Witness ==
    /\ Listed
    /\ Len(index) = 3
    /\ index[1] = [asin |-> "A1", productTitle |-> "T1"]
    /\ index[2] = [asin |-> "A1", productTitle |-> "T2"]
    /\ index[3] = [asin |-> "A1", productTitle |-> None]
    /\ scrolls = 2
    /\ collected = <<[asin |-> "A1", productTitle |-> "T1"]>>


\* C21: list_products returns on every finite index; a page is requested
\* only while fewer than limit products are collected and, after the first
\* page, only when the index gave a next page offset; it has returned
\* because limit products are collected, because a page came back empty, or
\* because the index reported no next page offset; at most one page per
\* point of the index is requested (one for an empty index).
C21_ListingTerminatesAndStopsPaging ==
    /\ (lp_pc = "loop") ~> Listed
    /\ [][scrolls' = scrolls + 1 =>
            /\ Len(collected) < limit
            /\ scrolls > 0 => (page_offset # NoOffset /\ lp_points # <<>>)]_vars
    /\ [](Listed => (Len(collected) >= limit \/ lp_points = <<>> \/ page_offset = NoOffset))
    /\ [](lp_pc = "loop" => scrolls <= Len(index))

C21_Witness ==
    /\ Listed
    /\ Len(index) = 3
    /\ limit = 2
    /\ scrolls = 3
    /\ page_offset = NoOffset
    /\ Len(collected) = 1


\* a string with at least one character
NonEmpty(str) == str # <<>> /\ \E i \in 1..Len(str) : str[i] # ""

\* C22: every verdict the orchestrator uses carries a non-empty reason: the
\* reason of the answerability check (short-circuit on empty evidence,
\* unexpected model text and failed check included) and the reason of every
\* relevance check; the Unanswerable and Exhausted fallback messages embed
\* that non-empty reason.
C22_VerdictsCarryNonEmptyReasons ==
    /\ n.check > 0 => NonEmpty(reason1)
    /\ n.relevance > 0 => (NonEmpty(reason2) /\ NonEmpty(lastRelReason))
    /\ (Finished /\ exit = "unanswerable") =>
          (NonEmpty(reason1) /\ Contains(result, <<"\n", Indent>> \o UnanswerableMessage(reason1)))
    /\ (Finished /\ exit = "exhausted") =>
          (NonEmpty(reason2) /\ Contains(result, <<"\n", Indent>> \o ExhaustedMessage(reason2)))

C22_Witness ==
    /\ Finished
    /\ exit = "exhausted"
    /\ reason1 = SufficientReason
    /\ reason2 = <<"error during check: ">> \o TransportError
    /\ n.relevance = 5
    /\ Contains(result, ExhaustedMessage(reason2))


\* the turns the running or last answer() call added to the history
TurnsOfCall == SubSeq(history, Len(histAtStart) + 1, Len(history))

\* C23: on every exit of answer() -- relevant, unanswerable, exhausted,
\* error -- the string returned is the content of the one assistant turn
\* that call appended to the history, and that turn is the last one.
C23_ReturnedStringIsTheAppendedTurn ==
    /\ \A k \in 1..Len(TurnsOfCall) :
         TurnsOfCall[k].type = "ai" => (Finished /\ k = Len(TurnsOfCall))
    /\ Finished =>
         /\ exit \in ExitKinds
         /\ TurnsOfCall[Len(TurnsOfCall)].type = "ai"
         /\ TurnsOfCall[Len(TurnsOfCall)].content = result
         /\ messages[Len(messages)] = [role |-> "assistant", content |-> result]

C23_Witness ==
    /\ Finished
    /\ exit = "error"
    /\ failed.stage = "generate"
    /\ n.generate = 2
    /\ Len(TurnsOfCall) = 2
    /\ TurnsOfCall[2].content = ErrorMessage(TransportError)

\* C25: the Follow-up Generator is called exactly once in a turn that ends
\* through the Unanswerable, Relevant or Exhausted exit, after the verdict
\* that decides the exit and with the refined query and the evidence of the
\* turn; it is not called while the retry loop runs, nor in a turn aborted
\* by a failure of the refiner, the retriever or the generator.
C25_FollowUpsOncePerCompletedTurn ==
    /\ n.followup <= 1
    /\ (Finished /\ exit \in {"unanswerable", "relevant", "exhausted"}) =>
          /\ n.followup = 1
          /\ args.followup = [user_question |-> refined_query, context |-> retrieved_info]
          /\ refined_query # user_query
    /\ n.followup = 1 =>
          /\ n.check = 1
          /\ \/ ~answerable /\ n.generate = 0
             \/ answerable /\ verdicts # <<>> /\ verdicts[Len(verdicts)]
             \/ answerable /\ AllIrrelevant
    /\ pc \in {"refine", "retrieve", "check", "generate", "relevance"} => n.followup = 0
    /\ failed.stage \in {"refine", "retrieve", "generate"} => n.followup = 0

C25_Witness ==
    /\ Finished
    /\ exit = "exhausted"
    /\ n.generate = 5
    /\ n.followup = 1
    /\ args.followup.user_question = <<"r2">>
    /\ Len(args.followup.context) = 2


\* C24: on the Relevant exit the answer in the returned message is the
\* candidate the generator returned in the accepting attempt: the last
\* candidate generated, the one the true verdict was given on, with as many
\* generations as verdicts in the turn.
C24_AcceptedCandidateIsReturned ==
    /\ pc = "relevance" => answer = candidate
    /\ pc = "followup_relevant" =>
          /\ answer = candidate
          /\ args.relevance.generated_response = candidate
    /\ (Finished /\ exit = "relevant") =>
          /\ verdicts[Len(verdicts)]
          /\ \A k \in 1..(Len(verdicts) - 1) : ~verdicts[k]
          /\ n.generate = Len(verdicts)
          /\ args.relevance.generated_response = candidate
          /\ \E fus \in FollowUpLists : result = format_final_answer(candidate, fus)

C24_Witness ==
    /\ Finished
    /\ exit = "relevant"
    /\ verdicts = <<FALSE, FALSE, TRUE>>
    /\ candidate = <<"a2">>
    /\ Contains(result, <<"\n", Indent, "a2", "\n">>)

====
